---- MODULE Spec2Model ----
(***************************************************************************)
(* Bridge crack detection: the detection loop of main.py (Spec), the MQTT  *)
(* listener of dashboard.py (SpecListener) and the dashboard's filters     *)
(* (SpecFilter).  The two scripts are separate programs that share only    *)
(* the database, so each has its own specification over its own variables. *)
(*                                                                         *)
(* Time is counted in whole seconds; confidences in hundredths.            *)
(***************************************************************************)
EXTENDS Integers, Sequences, FiniteSets, TLC

\* ------------------------------------------------------------------ bounds
\* frames the capture devices deliver in one behaviour (all runs together)
MaxFrames == 21
\* boxes the detector returns for one frame
MaxBoxes == 1
\* seconds the clock advances in one behaviour
ClockSpan == 2
\* the qualifying detections of a run are counted up to this number
QualCap == 2

\* ------------------------------------------------------- program constants
store_interval == 20
send_interval == 1
ConfThreshold == 60

\* time.time() is seconds since 1970: far beyond send_interval at any run
Epoch == send_interval + 1
MaxClock == Epoch + ClockSpan

None == "None"

\* What the detector returns for a box: model.names[cls] in the detector's
\* spelling and box.conf, at the threshold and above it
Boxes == { [name |-> "Cracks", conf |-> 61], [name |-> "Severe Crack", conf |-> 61],
           [name |-> "Cracks", conf |-> 60], [name |-> "spalling", conf |-> 61] }

RECURSIVE SeqsUpTo(_, _)
SeqsUpTo(S, n) ==
    IF n = 0 THEN {<< >>}
    ELSE LET shorter == SeqsUpTo(S, n - 1)
         IN shorter \cup {Append(s, x) : s \in {t \in shorter : Len(t) = n - 1}, x \in S}

VARIABLES
    \* ---- main.py
    pc,                 \* position of the running script; "idle": no run
    frames_total,       \* frames delivered so far
    clock,              \* time.time()
    start_btn, stop_btn,
    mqtt_client,        \* "client" or None
    video_source_name,
    run_flag,
    frame_counter,
    last_send_time,
    crack_detected, severe_crack_detected,
    collection,         \* db["detections"], a sequence of documents
    fs,                 \* GridFS: the ids of the stored images
    cap_released, mqtt_disconnected, reported,
    \* history of the current run
    ended,              \* how the last run ended
    stop_pressed,       \* the run was ended by a click on Stop Detection
    published,          \* the times of the successful publishes
    publish_raised,     \* a publish call raised
    frame_qualifying,   \* the frame last read held a qualifying box
    qualifying,         \* qualifying detections of this run, QualCap: that or more
    due,                \* of those, the ones in a frame the interval selects, stored
    inserted            \* insert_one calls of this run that returned

mainVars == << pc, frames_total, clock, start_btn, stop_btn, mqtt_client,
               video_source_name, run_flag, frame_counter, last_send_time,
               crack_detected, severe_crack_detected, collection, fs,
               cap_released, mqtt_disconnected, reported, ended, stop_pressed,
               published, publish_raised, frame_qualifying,
               qualifying, due, inserted >>

VARIABLES
    \* ---- dashboard.py: the listener
    session_state,      \* per browser session: "mqtt_thread_started" is set
    reruns,             \* per browser session: runs of the script so far
    threads,            \* the listener threads started: [session, status, handled]
    alerts,             \* db["alerts"], a sequence of documents
    delivered,          \* on_message calls so far
    expected,           \* what the delivered messages call for: [alert_type, value]
    \* ---- dashboard.py: the filters
    detections,         \* db["detections"] as the dashboard finds it
    view,               \* "none", "rendered" or "error": how the last run ended
    df, labels, sources,
    chosen_labels, chosen_sources,      \* what the multiselects returned
    selected_labels, selected_sources, start_date, end_date,
    filtered_df

listenerVars == << session_state, reruns, threads, alerts, delivered, expected >>
filterVars == << detections, view, df, labels, sources, chosen_labels,
                 chosen_sources, selected_labels, selected_sources, start_date,
                 end_date, filtered_df >>
dashboardVars == << listenerVars, filterVars >>

vars == << mainVars, dashboardVars >>

\* ------------------------------------------------------------ main.py
\* str.lower() on the detector's class names
Lower(name) ==
    CASE name = "Cracks" -> "cracks"
      [] name = "Severe Crack" -> "severe crack"
      [] OTHER -> name

QualifiesAtThreshold(label, conf) ==
    label \in {"cracks", "severe crack"} /\ conf >= ConfThreshold

\* line 130
Qualifies(label, conf) ==
    label \in {"cracks", "severe crack"} /\ conf > ConfThreshold

ShouldStoreAfter(fc) == fc % store_interval = 1

\* line 143
ShouldStore(fc) == fc % store_interval = 0

CooldownElapsedAt(now, last) == now - last >= send_interval

\* line 160, second conjunct
CooldownElapsed(now, last) == now - last > send_interval

\* line 160, first conjunct
AnyDetected(crack, severe) == crack \/ severe

\* lines 144-157: the document, the image of a severe crack, the insert.
\* st = [collection, fs, crack, severe, raised, inserted]; i is the box's place in
\* the frame.  fail.at = i makes this box's store fail: fs.put when fail.kind is
\* "put" (a severe crack only), insert_one when it is "insert".
StoreDetection(st, label, conf, fc, i, fail) ==
    LET putFails == fail.at = i /\ fail.kind = "put"
        insertFails == fail.at = i /\ fail.kind = "insert"
        image_id == Cardinality(st.fs) + 1
        doc == [timestamp |-> clock, label |-> label, confidence |-> conf,
                frame_id |-> fc, video_source |-> video_source_name,
                image_id |-> IF label = "severe crack" THEN image_id ELSE 0]
    IN IF label = "severe crack" /\ putFails
       THEN [st EXCEPT !.raised = "put"]
       ELSE LET withImage == IF label = "severe crack"
                             THEN [st EXCEPT !.fs = @ \cup {image_id}]
                             ELSE st
            IN IF insertFails
               THEN [withImage EXCEPT !.raised = "insert"]
               ELSE [withImage EXCEPT !.collection = Append(@, doc),
                                      !.inserted = @ + 1]

\* lines 123-157: the loop over the boxes of one frame
RECURSIVE ProcessBoxes(_, _, _, _, _)
ProcessBoxes(boxes, i, fc, fail, st) ==
    IF i > Len(boxes) \/ st.raised # None THEN st
    ELSE LET label == Lower(boxes[i].name)
             conf == boxes[i].conf
         IN IF Qualifies(label, conf)
            THEN LET flagged == IF label = "severe crack"
                                THEN [st EXCEPT !.severe = TRUE]
                                ELSE [st EXCEPT !.crack = TRUE]
                 IN IF ShouldStore(fc)
                    THEN ProcessBoxes(boxes, i + 1, fc, fail,
                                      StoreDetection(flagged, label, conf, fc, i, fail))
                    ELSE ProcessBoxes(boxes, i + 1, fc, fail, flagged)
            ELSE ProcessBoxes(boxes, i + 1, fc, fail, st)

InitMain ==
    /\ pc = "idle"
    /\ frames_total = 0
    /\ clock = Epoch
    /\ start_btn = FALSE
    /\ stop_btn = FALSE
    /\ mqtt_client = None
    /\ video_source_name = None
    /\ run_flag = FALSE
    /\ frame_counter = 0
    /\ last_send_time = 0
    /\ crack_detected = FALSE
    /\ severe_crack_detected = FALSE
    /\ collection = << >>
    /\ fs = {}
    /\ cap_released = FALSE
    /\ mqtt_disconnected = FALSE
    /\ reported = FALSE
    /\ ended = "none"
    /\ stop_pressed = FALSE
    /\ published = << >>
    /\ publish_raised = FALSE
    /\ frame_qualifying = FALSE
    /\ qualifying = 0
    /\ due = 0
    /\ inserted = 0

loopHistory == << published, publish_raised, frame_qualifying, qualifying, due,
                  inserted >>
database == << collection, fs >>
cleanupState == << cap_released, mqtt_disconnected, reported >>

\* lines 177-181: release the capture, stop the client, report
Cleanup ==
    /\ cap_released' = TRUE
    /\ mqtt_disconnected' = (mqtt_client # None)
    /\ reported' = TRUE
    /\ pc' = "idle"
    /\ ended' = "finished"
    /\ UNCHANGED stop_pressed

\* An uncaught exception, or the framework's script control exception (raised
\* inside a framework call when a widget click has queued a rerun): the run ends
\* where it is, lines 177-181 are not reached.
Abandon(how) ==
    /\ pc' = "idle"
    /\ ended' = how
    /\ stop_pressed' = (how = "interrupted")
    /\ UNCHANGED cleanupState

\* lines 169-181: show the frame, test the button, leave the loop or go on.
\* frame_placeholder.image is a framework call; pending: Stop Detection was
\* clicked since the run began.
DisplayAndLoop(pending) ==
    IF pending
    THEN Abandon("interrupted") /\ UNCHANGED run_flag
    ELSE IF stop_btn
         THEN run_flag' = FALSE /\ Cleanup
         ELSE /\ pc' = "read"
              /\ UNCHANGED << run_flag, ended, stop_pressed, cleanupState >>

\* lines 41-108: one run of the script up to the loop.  A button is True only in
\* the run its click triggered, so at most one of the two is; the run that
\* follows a click on Stop Detection has stop_btn True.  The source is
\* the webcam (lines 91-93); its name does not carry the time it was opened.
RunScript(start, stop, connected, opened) ==
    /\ pc = "idle"
    /\ ~(start /\ stop)
    /\ stop_pressed => (stop /\ ~start)
    /\ start_btn' = start
    /\ stop_btn' = stop
    /\ mqtt_client' = IF connected THEN "client" ELSE None
    /\ stop_pressed' = FALSE
    /\ frame_counter' = 0
    /\ last_send_time' = 0
    /\ crack_detected' = FALSE
    /\ severe_crack_detected' = FALSE
    /\ published' = << >>
    /\ publish_raised' = FALSE
    /\ frame_qualifying' = FALSE
    /\ qualifying' = 0
    /\ due' = 0
    /\ inserted' = 0
    /\ IF start /\ opened
       THEN /\ pc' = "read"
            /\ ended' = "none"
            /\ video_source_name' = "webcam"
            /\ run_flag' = TRUE
            /\ cap_released' = FALSE
            /\ mqtt_disconnected' = FALSE
            /\ reported' = FALSE
       ELSE /\ pc' = "idle"
            /\ ended' = IF start THEN "not_opened" ELSE "not_started"
            /\ video_source_name' = None
            /\ run_flag' = FALSE
            /\ UNCHANGED cleanupState
    /\ UNCHANGED << frames_total, clock, database >>
    /\ UNCHANGED dashboardVars

\* lines 110-114 and 177-181: cap.read() returns no frame; the loop is left
EndOfVideo(pending) ==
    /\ pc = "read"
    \* st.warning is a framework call too
    /\ IF pending THEN Abandon("interrupted") ELSE Cleanup
    /\ UNCHANGED << frames_total, clock, start_btn, stop_btn, mqtt_client,
                    video_source_name, run_flag, frame_counter, last_send_time,
                    crack_detected, severe_crack_detected, database, loopHistory >>
    /\ UNCHANGED dashboardVars

\* lines 110-161 and, when nothing is to be published, 169-181: read a frame, run
\* the detector over it, store, test the cooldown
Frame(boxes, fail, pending) ==
    /\ pc = "read"
    /\ frames_total < MaxFrames
    /\ frames_total' = frames_total + 1
    /\ frame_counter' = frame_counter + 1
    /\ LET st0 == [collection |-> collection, fs |-> fs, crack |-> FALSE,
                   severe |-> FALSE, raised |-> None, inserted |-> inserted]
           quals == {i \in 1..Len(boxes) :
                       /\ Lower(boxes[i].name) \in {"cracks", "severe crack"}
                       /\ boxes[i].conf > ConfThreshold}
           \* the boxes the loop got to and, of those, the ones it got past
       IN \E st \in {ProcessBoxes(boxes, 1, frame_counter', fail, st0)} :
          LET seen == {i \in quals : st.raised = None \/ i <= fail.at}
              done == {i \in quals : st.raised = None \/ i < fail.at}
              count == qualifying + Cardinality(seen)
          IN
          /\ collection' = st.collection
          /\ fs' = st.fs
          /\ inserted' = st.inserted
          /\ crack_detected' = st.crack
          /\ severe_crack_detected' = st.severe
          /\ frame_qualifying' = (quals # {})
          /\ qualifying' = IF count > QualCap THEN QualCap ELSE count
          /\ due' = due + (IF frame_counter' % store_interval = 0
                           THEN Cardinality(done) ELSE 0)
          /\ IF st.raised # None
             THEN Abandon("crashed") /\ UNCHANGED run_flag
             ELSE IF /\ AnyDetected(st.crack, st.severe)
                     /\ CooldownElapsed(clock, last_send_time)
                     /\ mqtt_client # None
                  THEN /\ pc' = "publishing"
                       /\ UNCHANGED << run_flag, ended, stop_pressed, cleanupState >>
                  ELSE DisplayAndLoop(pending)
    /\ UNCHANGED << published, publish_raised >>
    /\ UNCHANGED << clock, start_btn, stop_btn, mqtt_client,
                    video_source_name, last_send_time >>
    /\ UNCHANGED dashboardVars

\* lines 162-181: publish returns, or raises and is caught; then the display
PublishReturn(ok, pending) ==
    /\ pc = "publishing"
    /\ IF ok
       THEN /\ published' = Append(published, clock)
            /\ last_send_time' = clock
            /\ UNCHANGED publish_raised
       ELSE /\ publish_raised' = TRUE
            /\ UNCHANGED << published, last_send_time >>
    /\ DisplayAndLoop(pending)
    /\ UNCHANGED << frames_total, clock, start_btn, stop_btn, mqtt_client,
                    video_source_name, frame_counter, crack_detected,
                    severe_crack_detected, database, frame_qualifying,
                    qualifying, due, inserted >>
    /\ UNCHANGED dashboardVars

\* a second passes
Tick ==
    /\ clock < MaxClock
    /\ clock' = clock + 1
    /\ UNCHANGED << pc, frames_total, start_btn, stop_btn, mqtt_client,
                    video_source_name, run_flag, frame_counter, last_send_time,
                    crack_detected, severe_crack_detected, database, cleanupState,
                    ended, stop_pressed, loopHistory >>
    /\ UNCHANGED dashboardVars

\* ------------------------------------------- dashboard.py: the listener
\* browser sessions the dashboard process serves
MaxSessions == 2
\* runs of the script in one session
MaxReruns == 2
\* messages delivered to on_message in one behaviour
MaxMessages == 2

Sessions == 1..MaxSessions
DEVICE_ID == "esp32-mainboard-01"

\* MQTT payloads.  kind "undecodable": bytes that are not UTF-8; "text": text
\* that is not JSON; "scalar": JSON that is no object (the "1" of the crack
\* topic); "object": a JSON object, whose type and value are given by their
\* JSON token ("empty" is the empty string, "missing" an absent key).  After
\* json.loads the tokens stand for the Python values: "null" for None, "0" for 0.
Types == {"missing", "null", "empty", "WATER"}
Values == {"missing", "null", "0", "5"}
Payloads ==
    {[kind |-> k, type |-> "missing", value |-> "missing"] :
        k \in {"undecodable", "text", "scalar"}}
    \cup [kind : {"object"}, type : Types, value : Values]

\* dict.get(key, default)
Get(data, key, default) == IF data[key] = "missing" THEN default ELSE data[key]

\* the truth value of a Python object
Truthy(v) == v \notin {"null", "empty", "0"}

ValueTruthy(v) == Truthy(v)

\* line 72, second conjunct: alert_value is not None
ValueGiven(v) == v # "null"

\* lines 47-52
AlertDoc(alert_type, alert_value) ==
    [timestamp |-> clock, alert_type |-> alert_type, value |-> alert_value,
     device_id |-> DEVICE_ID]

\* lines 64-75: what on_message does with a payload: "stored", "skipped", or
\* "error" (an exception, caught at line 74)
OnMessageOutcome(msg, insert_ok) ==
    IF msg.kind = "undecodable" THEN "error"        \* payload.decode() raises
    ELSE IF msg.kind = "text" THEN "error"          \* json.loads raises
    ELSE IF msg.kind = "scalar" THEN "error"        \* no attribute get
    ELSE LET alert_type == Get(msg, "type", "UNKNOWN")
             alert_value == Get(msg, "value", "null")
         IN IF Truthy(alert_type) /\ ValueGiven(alert_value)
            THEN IF insert_ok THEN "stored" ELSE "error"
            ELSE "skipped"

ThreadNeverStarted(s) == TRUE

\* line 93
ThreadNotStarted(s) == ~session_state[s]

InitListener ==
    /\ session_state = [s \in Sessions |-> FALSE]
    /\ reruns = [s \in Sessions |-> 0]
    /\ threads = << >>
    /\ alerts = << >>
    /\ delivered = 0
    /\ expected = << >>

\* lines 92-97 of a run of the script in session s
StartListenerOnce(s) ==
    /\ reruns[s] < MaxReruns
    /\ reruns' = [reruns EXCEPT ![s] = @ + 1]
    /\ IF ThreadNotStarted(s)
       THEN /\ threads' = Append(threads, [session |-> s, status |-> "connecting",
                                           handled |-> FALSE])
            /\ session_state' = [session_state EXCEPT ![s] = TRUE]
       ELSE UNCHANGED << threads, session_state >>
    /\ UNCHANGED << alerts, delivered, expected, mainVars, filterVars >>

\* lines 77-90: the thread connects and enters loop_forever, or the connect
\* raises, which is printed, and the thread ends
ListenerConnect(t, ok) ==
    /\ t \in DOMAIN threads
    /\ threads[t].status = "connecting"
    /\ threads' = [threads EXCEPT ![t].status = IF ok THEN "listening" ELSE "exited"]
    /\ UNCHANGED << session_state, reruns, alerts, delivered, expected, mainVars,
                    filterVars >>

\* lines 64-75: the client of thread t calls on_message
OnMessage(t, msg, insert_ok) ==
    /\ t \in DOMAIN threads
    /\ threads[t].status = "listening"
    /\ delivered < MaxMessages
    /\ delivered' = delivered + 1
    /\ alerts' = IF OnMessageOutcome(msg, insert_ok) = "stored"
                 THEN Append(alerts, AlertDoc(Get(msg, "type", "UNKNOWN"),
                                              Get(msg, "value", "null")))
                 ELSE alerts
    /\ threads' = [threads EXCEPT ![t].handled = TRUE]
    /\ expected' = IF /\ msg.kind = "object"
                      /\ msg.value \notin {"missing", "null"}
                      /\ msg.type \notin {"null", "empty"}
                      /\ insert_ok
                   THEN Append(expected,
                               [alert_type |-> IF msg.type = "missing"
                                               THEN "UNKNOWN" ELSE msg.type,
                                value |-> msg.value])
                   ELSE expected
    /\ UNCHANGED << session_state, reruns, mainVars, filterVars >>

NextListener ==
    \/ \E s \in Sessions : StartListenerOnce(s)
    \/ \E t \in 1..MaxSessions * MaxReruns, ok \in BOOLEAN : ListenerConnect(t, ok)
    \/ \E t \in 1..MaxSessions * MaxReruns, msg \in Payloads, insert_ok \in BOOLEAN :
            OnMessage(t, msg, insert_ok)

\* -------------------------------------------- dashboard.py: the filters
\* documents in db["detections"]
MaxDetections == 2
\* the days the timestamps and the date inputs range over
MaxDate == 2

\* a value of the date column: a day, or NaT
NaT == [valid |-> FALSE, day |-> 0]
Day(d) == [valid |-> TRUE, day |-> d]

\* a document's timestamp: absent (or text that is no time), or the ISO text of a day
RawTimestamps ==
    {[kind |-> "missing", day |-> 0]} \cup {[kind |-> "iso", day |-> d] : d \in 1..MaxDate}
RawDocs == [label : {"cracks", "severe crack"}, timestamp : RawTimestamps,
            video_source : {None, "webcam"}]

\* lines 112 and 114: pd.to_datetime(errors="coerce", utc=True), then .dt.date
ToDate(ts) == IF ts.kind = "iso" THEN Day(ts.day) ELSE NaT

\* line 113
FillSource(v) == IF v = None THEN "unknown_source" ELSE v

\* lines 106-115: one row of df
Normalize(doc) ==
    [label |-> Lower(doc.label), video_source |-> FillSource(doc.video_source),
     date |-> ToDate(doc.timestamp)]

LoadFrame(docs) == [i \in DOMAIN docs |-> Normalize(docs[i])]

\* lines 144-145: the comparisons of the date column, False in a row that is NaT
DateGE(a, b) == a.valid /\ b.valid /\ a.day >= b.day
DateLE(a, b) == a.valid /\ b.valid /\ a.day <= b.day

RowMatchesAnySource(row, labs, srcs, start, end) ==
    /\ row.label \in labs
    /\ DateGE(row.date, start)
    /\ DateLE(row.date, end)

\* lines 141-146: the mask of one row
RowMatches(row, labs, srcs, start, end) ==
    /\ row.label \in labs
    /\ row.video_source \in srcs
    /\ DateGE(row.date, start)
    /\ DateLE(row.date, end)

FilterRows(frame, labs, srcs, start, end) ==
    SelectSeq(frame, LAMBDA row : RowMatches(row, labs, srcs, start, end))

ValidDays(frame) == {frame[i].date.day : i \in {j \in DOMAIN frame : frame[j].date.valid}}

\* lines 128-129: df["date"].min() and .max(), skipping NaT
DateMin(frame) ==
    IF ValidDays(frame) = {} THEN NaT
    ELSE Day(CHOOSE d \in ValidDays(frame) : \A e \in ValidDays(frame) : d <= e)
DateMax(frame) ==
    IF ValidDays(frame) = {} THEN NaT
    ELSE Day(CHOOSE d \in ValidDays(frame) : \A e \in ValidDays(frame) : d >= e)

\* lines 134-138: an empty multiselect is put back to all the options
EffectiveSelection(chosen, all) == IF chosen = {} THEN all ELSE chosen

InitFilter ==
    /\ detections = << >>
    /\ view = "none"
    /\ df = << >>
    /\ labels = {}
    /\ sources = {}
    /\ chosen_labels = {}
    /\ chosen_sources = {}
    /\ selected_labels = {}
    /\ selected_sources = {}
    /\ start_date = NaT
    /\ end_date = NaT
    /\ filtered_df = << >>

\* a writer (main.py, or any other client of the database) inserts a document
InsertDetection(doc) ==
    /\ Len(detections) < MaxDetections
    /\ detections' = Append(detections, doc)
    /\ UNCHANGED << view, df, labels, sources, chosen_labels, chosen_sources,
                    selected_labels, selected_sources, start_date, end_date,
                    filtered_df, mainVars, listenerVars >>

\* lines 99-148 of a run of the script.  cl, cs: what the user has selected in
\* the two multiselects; sd, ed: the days picked in the date inputs, 0 when the
\* input is left at its default (with no detections, today).  raises: the run ends at
\* line 128 with an exception.  It does when no row has a date (the minimum is
\* then no date, which st.date_input refuses), and it may when NaT stands beside
\* dates in the column (the library takes the minimum of an object column by
\* comparing its values and may refuse with a TypeError, or skip the NaT).
LoadAndFilter(cl, cs, sd, ed, raises) ==
    /\ df' = LoadFrame(detections)
    /\ labels' = {df'[i].label : i \in DOMAIN df'}
    /\ sources' = {df'[i].video_source : i \in DOMAIN df'}
    /\ cl \subseteq labels'
    /\ cs \subseteq sources'
    /\ raises => \E i \in DOMAIN df' : ~df'[i].date.valid
    /\ (df' # << >> /\ ValidDays(df') = {}) => raises
    /\ chosen_labels' = cl
    /\ chosen_sources' = cs
    /\ IF raises
       THEN /\ view' = "error"
            /\ selected_labels' = cl
            /\ selected_sources' = cs
            /\ start_date' = NaT
            /\ end_date' = NaT
            /\ filtered_df' = << >>
       ELSE /\ view' = "rendered"
            /\ selected_labels' = EffectiveSelection(cl, labels')
            /\ selected_sources' = EffectiveSelection(cs, sources')
            /\ start_date' = IF sd # 0 THEN Day(sd)
                             ELSE IF df' = << >> THEN Day(MaxDate) ELSE DateMin(df')
            /\ end_date' = IF ed # 0 THEN Day(ed)
                           ELSE IF df' = << >> THEN Day(MaxDate) ELSE DateMax(df')
            /\ filtered_df' = FilterRows(df', selected_labels', selected_sources',
                                         start_date', end_date')
    /\ UNCHANGED << detections, mainVars, listenerVars >>

\* the options the two multiselects offer (lines 120-126)
StoredLabels == {Normalize(detections[i]).label : i \in DOMAIN detections}
StoredSources == {Normalize(detections[i]).video_source : i \in DOMAIN detections}

NextFilter ==
    \/ \E doc \in RawDocs : InsertDetection(doc)
    \/ \E cl \in SUBSET StoredLabels, cs \in SUBSET StoredSources,
          sd, ed \in 0..MaxDate, raises \in BOOLEAN :
            LoadAndFilter(cl, cs, sd, ed, raises)

Init == InitMain /\ InitListener /\ InitFilter

\* which store call of the frame raises: none (at = 0), or the one for box `at`;
\* in a frame that stores nothing there is no call to raise
NoFailure == [at |-> 0, kind |-> None]
Failures(fc) ==
    IF ShouldStore(fc)
    THEN {NoFailure} \cup [at : 1..MaxBoxes, kind : {"put", "insert"}]
    ELSE {NoFailure}

NextMain ==
    \/ \E start, stop, connected, opened \in BOOLEAN :
            RunScript(start, stop, connected, opened)
    \/ \E pending \in BOOLEAN : EndOfVideo(pending)
    \/ \E pending \in BOOLEAN, boxes \in SeqsUpTo(Boxes, MaxBoxes),
          fail \in Failures(frame_counter + 1) :
            Frame(boxes, fail, pending)
    \/ \E ok, pending \in BOOLEAN : PublishReturn(ok, pending)
    \/ Tick

Spec == Init /\ [][NextMain]_vars
SpecListener == Init /\ [][NextListener]_vars
SpecFilter == Init /\ [][NextFilter]_vars

\* ------------------------------------------------------ claims on main.py
\* C1: a "1" is published only in an iteration whose frame held a qualifying
\* box, and more than send_interval after every earlier successful publish of
\* the loop.
PublishCooldown ==
    [][Len(published') > Len(published) =>
         /\ frame_qualifying
         /\ \A i \in DOMAIN published :
                published'[Len(published')] - published[i] > send_interval]_vars

\* two alerts were published in one loop
TwoPublishes == Len(published) >= 2

\* C2 as amended: the detections a run stores are the qualifying detections of
\* the frames whose frame_counter is a multiple of store_interval (those whose
\* insert_one returned), whatever their number in the run.
StoredEveryNthFrame == inserted = due

\* a run that stored a detection and left an earlier qualifying one unstored
StoredOneSkippedOthers == inserted = 1 /\ qualifying > inserted

\* C2 as stated: the k-th qualifying detection is stored exactly when k is a
\* multiple of store_interval, so a run has stored floor(qualifying / 20);
\* stated of the runs whose qualifying detections the history has counted all.
EveryNthDetection ==
    qualifying < QualCap => inserted = qualifying \div store_interval

\* C3 as stated: a failing insert_one, fs.put or publish is caught and the loop
\* goes on: no run is ended by the exception.
CatchPrintContinue == ended # "crashed"

\* C4 as stated: when Stop Detection was pressed during detection and the run is
\* over, the loop has set run_flag to False, the capture is released, the client
\* disconnected and the stop reported.
StopEndsDetection ==
    (stop_pressed /\ pc = "idle") =>
        /\ run_flag = FALSE
        /\ cap_released
        /\ (mqtt_client # None => mqtt_disconnected)
        /\ reported

\* C9: every stored detection has a qualifying label and confidence, was written
\* in a frame whose counter is a multiple of store_interval, and carries the id
\* of an image in the store exactly when it is a severe crack.
StoredRecordsInvariant ==
    \A i \in DOMAIN collection :
        LET doc == collection[i]
        IN /\ doc.label \in {"cracks", "severe crack"}
           /\ doc.confidence > ConfThreshold
           /\ doc.frame_id % store_interval = 0
           /\ (doc.image_id # 0) <=> (doc.label = "severe crack")
           /\ doc.image_id # 0 => doc.image_id \in fs

\* a severe crack was stored with its image
SevereCrackStored ==
    \E i \in DOMAIN collection :
        collection[i].label = "severe crack" /\ collection[i].image_id \in fs

\* C10 as stated: with a connected client and no publish having raised, an
\* iteration whose frame holds a qualifying box either publishes or comes at most
\* send_interval after a successful publish; without a client nothing is
\* published.
AlertCoverage ==
    /\ [][(/\ pc = "read"
           /\ frame_counter' = frame_counter + 1
           /\ frame_qualifying'
           /\ mqtt_client # None
           /\ ~publish_raised
           /\ pc' # "publishing")
          => \E i \in DOMAIN published : clock - published[i] <= send_interval]_vars
    /\ [](mqtt_client = None => (pc # "publishing" /\ published = << >>))

\* ------------------------------------------------- claims on dashboard.py
\* C5 as amended: no browser session starts the listener more than once, however
\* often its script runs.
ListenerOncePerSession ==
    \A s \in Sessions :
        Cardinality({t \in DOMAIN threads : threads[t].session = s}) <= 1

\* a session whose script has run twice and that has its one listener
RerunKeepsOneListener ==
    \E s \in Sessions :
        /\ reruns[s] >= 2
        /\ Cardinality({t \in DOMAIN threads : threads[t].session = s}) = 1

\* C5 as stated: the process starts the listener at most once.
SingleListener == Len(threads) <= 1

\* C8: the alerts are, in order, one record per delivered message that is a JSON
\* object with a non-null value and a non-empty type (UNKNOWN when absent) and
\* whose insert succeeded, and none for any other message; a listener that has
\* handled a message, whatever it was, is still listening.
AlertsMatchMessages ==
    /\ Len(alerts) = Len(expected)
    /\ \A i \in DOMAIN alerts :
           /\ i \in DOMAIN expected
           /\ alerts[i].alert_type = expected[i].alert_type
           /\ alerts[i].value = expected[i].value
           /\ alerts[i].device_id = DEVICE_ID
    /\ \A t \in DOMAIN threads : threads[t].handled => threads[t].status = "listening"

\* of two messages one was stored, under the type UNKNOWN, and one dropped
UnknownStoredOtherDropped ==
    /\ delivered = 2
    /\ Len(alerts) = 1
    /\ alerts[1].alert_type = "UNKNOWN"

\* C6 as amended: every row of filtered_df has its date within [start_date,
\* end_date], its label among the labels the user selected when the user
\* selected any, and its source among the sources the user selected when the
\* user selected any (an empty multiselect stands for all its options).
FilterKeepsSelection ==
    view = "rendered" =>
        \A i \in DOMAIN filtered_df :
            LET row == filtered_df[i]
            IN /\ chosen_labels # {} => row.label \in chosen_labels
               /\ chosen_sources # {} => row.video_source \in chosen_sources
               /\ row.date.valid /\ start_date.valid /\ end_date.valid
               /\ start_date.day <= row.date.day
               /\ row.date.day <= end_date.day

\* a selection that keeps one row and drops another
SelectionDropsARow ==
    /\ view = "rendered"
    /\ chosen_labels # {}
    /\ chosen_sources # {}
    /\ Len(filtered_df) >= 1
    /\ Len(filtered_df) < Len(df)

\* C6 as stated: every row of filtered_df has its label and its source in what
\* the user selected, an empty multiselect included, and its date in the range.
FilterKeepsChosen ==
    view = "rendered" =>
        \A i \in DOMAIN filtered_df :
            LET row == filtered_df[i]
            IN /\ row.label \in chosen_labels
               /\ row.video_source \in chosen_sources
               /\ row.date.valid /\ start_date.valid /\ end_date.valid
               /\ start_date.day <= row.date.day
               /\ row.date.day <= end_date.day

\* C7 as stated: with every label and every source selected and the date range
\* at its default, filtered_df holds exactly the rows of df.
AllSelectedReturnsAll ==
    (/\ view = "rendered"
     /\ chosen_labels = labels
     /\ chosen_sources = sources
     /\ start_date = DateMin(df)
     /\ end_date = DateMax(df))
    => filtered_df = df

====
